---- MODULE Spec2Model ----
(***************************************************************************)
(* The task service of app/main.py: the two FastAPI application objects     *)
(* the module constructs, the routes and the observability middleware       *)
(* registered on the first one, the SQLite store behind the handlers (one   *)
(* connection per request, statements interleaved between requests), and    *)
(* the Prometheus counter and histogram the middleware feeds.               *)
(***************************************************************************)
EXTENDS Integers, Sequences, FiniteSets, Bags, TLC

\* Bounds of the model.
MaxRequests == 3        \* requests received in one behaviour
MaxInFlight == 2        \* requests being handled at the same time
MaxFaults == 1          \* store statements that raise in one behaviour

\* TaskCreate.title: Field(min_length=1, max_length=200)
MinTitleLen == 1
MaxTitleLen == 200

VARIABLES
    served,      \* the application object that receives the requests
    phase,       \* "boot" | "serving" | "failed"
    tasks,       \* committed rows of table tasks: records [id, title, done]
    seq,         \* sqlite_sequence of AUTOINCREMENT: the largest id committed
    wlock,       \* whether a connection holds the store's write lock
    active,      \* bag of the requests being handled
    finished,    \* bag of the requests whose handling has ended
    faults,      \* store statements that have raised
    REQ_COUNT,   \* bag of <<method, path, status>>
    REQ_LAT,     \* bag of <<method, path>>: observations of the histogram
    log          \* bag of the lines log.info has written

vars == <<served, phase, tasks, seq, wlock, active, finished, faults, REQ_COUNT,
          REQ_LAT, log>>

reqs == <<active, finished>>

store == <<tasks, seq, wlock>>
metrics_state == <<REQ_COUNT, REQ_LAT, log>>

----------------------------------------------------------------------------
\* Module level: the application objects.

\* app = FastAPI(title=APP_NAME): the object the decorators below it act on.
FirstApp == "FastAPI@38"

\* app = FastAPI(): the object the name app is bound to when the module has run.
SecondApp == "FastAPI@124"

\* What "from app.main import app" yields: the last binding of the name.
ExportedApp == SecondApp

AppObjects == {FirstApp, SecondApp}

\* The routes each object carries: the five decorators all ran on FirstApp.
Routes(a) ==
    IF a = FirstApp
    THEN { <<"GET", "/health">>, <<"GET", "/tasks">>, <<"POST", "/tasks">>,
           <<"PATCH", "/tasks/{task_id}/done">>, <<"GET", "/metrics">> }
    ELSE {}

\* @app.middleware("http") ran on FirstApp only.
HasMiddleware(a) == a = FirstApp

\* @app.on_event("startup") ran on FirstApp only.
HasStartup(a) == a = FirstApp

----------------------------------------------------------------------------
\* Inputs.

\* A string of n characters.
RECURSIVE Rep(_)
Rep(n) ==
    IF n = 0 THEN ""
    ELSE IF n = 1 THEN "a"
    ELSE LET half == Rep(n \div 2)
         IN half \o half \o Rep(n % 2)

Titles == { "", "w", Rep(MaxTitleLen), Rep(MaxTitleLen + 1) }

NoPayload == [has |-> FALSE, title |-> ""]
Payloads == {NoPayload} \cup { [has |-> TRUE, title |-> t] : t \in Titles }

PatchIds == {1, 999999}

PathOf(route, task_id) ==
    IF route = "/tasks/{task_id}/done"
    THEN "/tasks/" \o ToString(task_id) \o "/done"
    ELSE route

Inputs ==
    { [method |-> "GET", route |-> "/health", task_id |-> 0, payload |-> NoPayload],
      [method |-> "GET", route |-> "/tasks", task_id |-> 0, payload |-> NoPayload],
      [method |-> "GET", route |-> "/metrics", task_id |-> 0, payload |-> NoPayload] }
    \cup { [method |-> "POST", route |-> "/tasks", task_id |-> 0, payload |-> p] :
             p \in Payloads }
    \cup { [method |-> "PATCH", route |-> "/tasks/{task_id}/done", task_id |-> i,
            payload |-> NoPayload] : i \in PatchIds }

\* A TaskCreate whose title has no lower bound on its length.
ValidPayloadNoMin(p) ==
    /\ p.has
    /\ Len(p.title) <= MaxTitleLen

\* TaskCreate: title present, a string of 1..200 characters.
ValidPayload(p) ==
    /\ p.has
    /\ Len(p.title) >= MinTitleLen
    /\ Len(p.title) <= MaxTitleLen

----------------------------------------------------------------------------
\* Requests.

NoTxn == [op |-> "none", id |-> 0, title |-> ""]
NoBody == [kind |-> "none"]

NewRequest(in) ==
    [ method |-> in.method, route |-> in.route, path |-> PathOf(in.route, in.task_id),
      task_id |-> in.task_id, payload |-> in.payload,
      pc |-> "call", con |-> "none", txn |-> NoTxn, lastrowid |-> 0, rowcount |-> 0,
      committed |-> FALSE, status |-> 0, body |-> NoBody, exc |-> "",
      reraised |-> FALSE ]

\* The requests that can arrive, as they are when a worker takes them up.
Arrivals == { NewRequest(in) : in \in Inputs }

Active == BagToSet(active)
Finished == BagToSet(finished)

InFlight == BagCardinality(active)
Received == BagCardinality(active) + BagCardinality(finished)

Handler(r) ==
    IF <<r.method, r.route>> \in Routes(served)
    THEN r.route
    ELSE "none"

\* Where a handler's result goes: into the middleware when the object has one.
AfterHandler == IF HasMiddleware(served) THEN "ret" ELSE "done"

\* Request r (one being handled, or one just taken up) goes on as rec: among
\* the finished ones once its pc is "done".
Set(r, rec) ==
    IF rec.pc = "done"
    THEN /\ active' = active (-) SetToBag({r})
         /\ finished' = finished (+) SetToBag({rec})
    ELSE /\ active' = (active (-) SetToBag({r})) (+) SetToBag({rec})
         /\ UNCHANGED finished

\* A store statement raises: the exception leaves the handler, past whatever
\* the handler had still to do (its con.close() included).
Raise(r, con) ==
    /\ faults < MaxFaults
    /\ faults' = faults + 1
    /\ Set(r, [r EXCEPT !.pc = AfterHandler, !.con = con,
                        !.exc = "OperationalError"])

----------------------------------------------------------------------------
Init ==
    /\ served \in AppObjects
    /\ phase = "boot"
    /\ tasks = {}
    /\ seq = 0
    /\ wlock = FALSE
    /\ active = EmptyBag
    /\ finished = EmptyBag
    /\ faults = 0
    /\ REQ_COUNT = EmptyBag
    /\ REQ_LAT = EmptyBag
    /\ log = EmptyBag

\* startup / init_db: CREATE TABLE IF NOT EXISTS, commit, close.  An object
\* without the startup hook starts serving with nothing to run.
Startup ==
    /\ phase = "boot"
    /\ \/ phase' = "serving"
       \/ HasStartup(served) /\ phase' = "failed"
    /\ UNCHANGED <<served, store, reqs, faults, metrics_state>>

\* A request can be taken up: the object is serving and a worker is free.
Accepting ==
    /\ phase = "serving"
    /\ Received < MaxRequests
    /\ InFlight < MaxInFlight

\* No route of the served object matches: the router answers 404.
Unrouted(r) ==
    /\ r.pc = "call"
    /\ Handler(r) = "none"
    /\ Set(r, [r EXCEPT !.pc = AfterHandler, !.status = 404,
                              !.body = [kind |-> "detail", detail |-> "Not Found"]])
    /\ UNCHANGED <<served, phase, store, faults, metrics_state>>

\* health
Health(r) ==
    /\ r.pc = "call"
    /\ Handler(r) = "/health"
    /\ \/ Raise(r, "none")                    \* connect() raises
       \/ Raise(r, "open")                    \* SELECT 1 raises
       \/ /\ Set(r, [r EXCEPT !.pc = AfterHandler, !.con = "closed",
                                    !.status = 200,
                                    !.body = [kind |-> "health", status |-> "ok",
                                              db |-> "ok"]])
          /\ UNCHANGED faults
    /\ UNCHANGED <<served, phase, store, metrics_state>>

----------------------------------------------------------------------------
\* The store, as the statements of the handlers see it.

RowsWithId(i) == { t \in tasks : t.id = i }

MaxIdOf(rows) == IF rows = {} THEN 0
                 ELSE CHOOSE m \in { t.id : t \in rows } :
                        \A t \in rows : t.id <= m

\* id INTEGER PRIMARY KEY AUTOINCREMENT: one more than the largest id the
\* table has ever held.
NextRowId == (IF seq >= MaxIdOf(tasks) THEN seq ELSE MaxIdOf(tasks)) + 1

\* ORDER BY id (ascending)
RECURSIVE OrderByIdAsc(_)
OrderByIdAsc(rows) ==
    IF rows = {} THEN <<>>
    ELSE LET low == CHOOSE t \in rows : \A u \in rows : t.id <= u.id
         IN <<low>> \o OrderByIdAsc(rows \ {low})

\* ORDER BY id DESC
RECURSIVE OrderByIdDesc(_)
OrderByIdDesc(rows) ==
    IF rows = {} THEN <<>>
    ELSE LET top == CHOOSE t \in rows : \A u \in rows : u.id <= t.id
         IN <<top>> \o OrderByIdDesc(rows \ {top})

\* ... WHERE id=? then fetchone(): a row, or None.
FetchOne(i) ==
    IF RowsWithId(i) = {} THEN [found |-> FALSE, row |-> [id |-> 0, title |-> "", done |-> 0]]
    ELSE [found |-> TRUE, row |-> CHOOSE t \in RowsWithId(i) : TRUE]

\* UPDATE tasks SET done = 1 - done WHERE id=?
ApplyToggle(rows, i) ==
    { IF t.id = i THEN [t EXCEPT !.done = 1 - @] ELSE t : t \in rows }

\* UPDATE tasks SET done=1 WHERE id=?
ApplyUpdate(rows, i) ==
    { IF t.id = i THEN [t EXCEPT !.done = 1] ELSE t : t \in rows }

\* INSERT INTO tasks(title, done, created_at) VALUES(?,?,datetime('now'))
InsertedRow(title) == [id |-> NextRowId, title |-> title, done |-> 0]

\* cur.lastrowid of the INSERT a connection has just executed.
LastRowId(row) == row.id

\* SELECT ... ORDER BY id DESC LIMIT 1: the newest row of the table.
NewestRow(r) == FetchOne(MaxIdOf(tasks))

\* SELECT ... WHERE id=? with cur.lastrowid: the row this connection inserted.
CreatedRow(r) == FetchOne(r.lastrowid)

\* cur.rowcount of UPDATE ... WHERE id=? AND done=0
RowCountPending(i) == Cardinality({ t \in RowsWithId(i) : t.done = 0 })

\* cur.rowcount of UPDATE tasks SET done=1 WHERE id=?
RowCount(i) == Cardinality(RowsWithId(i))

\* if cur.rowcount < 0
RowCountNegative(r) == r.rowcount < 0

\* if cur.rowcount == 0
NoRowMatched(r) == r.rowcount = 0

\* dict(row) of a fetched row; dict(None) raises TypeError after con.close().
RowResult(r, f, code) ==
    IF f.found
    THEN [r EXCEPT !.pc = AfterHandler, !.con = "closed", !.status = code,
                         !.body = [kind |-> "task", task |-> f.row]]
    ELSE [r EXCEPT !.pc = AfterHandler, !.con = "closed", !.exc = "TypeError"]

\* list_tasks
ListTasks(r) ==
    /\ r.pc = "call"
    /\ Handler(r) = "/tasks"
    /\ r.method = "GET"
    /\ \/ Raise(r, "none")
       \/ Raise(r, "open")
       \/ /\ Set(r, [r EXCEPT !.pc = AfterHandler, !.con = "closed",
                                    !.status = 200,
                                    !.body = [kind |-> "list",
                                              rows |-> OrderByIdDesc(tasks)]])
          /\ UNCHANGED faults
    /\ UNCHANGED <<served, phase, store, metrics_state>>

\* create_task, refused before the handler runs: the payload is no TaskCreate.
CreateInvalid(r) ==
    /\ r.pc = "call"
    /\ Handler(r) = "/tasks"
    /\ r.method = "POST"
    /\ ~ValidPayload(r.payload)
    /\ Set(r, [r EXCEPT !.pc = AfterHandler, !.status = 422,
                              !.body = [kind |-> "detail", detail |-> "validation"]])
    /\ UNCHANGED <<served, phase, store, faults, metrics_state>>

\* create_task: connect(), then the INSERT.  The INSERT opens the connection's
\* transaction and takes the store's write lock; it waits while another
\* connection holds the lock.
CreateInsert(r) ==
    /\ r.pc = "call"
    /\ Handler(r) = "/tasks"
    /\ r.method = "POST"
    /\ ValidPayload(r.payload)
    /\ \/ Raise(r, "none") /\ UNCHANGED store
       \/ Raise(r, "open") /\ UNCHANGED store
       \/ /\ ~wlock
          /\ LET row == InsertedRow(r.payload.title)
             IN Set(r, [r EXCEPT !.pc = "commit", !.con = "open",
                           !.txn = [op |-> "insert", id |-> row.id, title |-> row.title],
                           !.lastrowid = LastRowId(row)])
          /\ wlock' = TRUE
          /\ UNCHANGED <<tasks, seq, faults>>
    /\ UNCHANGED <<served, phase, metrics_state>>

\* create_task: con.commit()
CreateCommit(r) ==
    /\ r.pc = "commit"
    /\ r.txn.op = "insert"
    /\ \/ Raise(r, "open") /\ UNCHANGED store
       \/ /\ tasks' = tasks \cup {[id |-> r.txn.id, title |-> r.txn.title,
                                   done |-> 0]}
          /\ seq' = r.txn.id
          /\ wlock' = FALSE
          /\ Set(r, [r EXCEPT !.pc = "select", !.txn = NoTxn, !.committed = TRUE])
          /\ UNCHANGED faults
    /\ UNCHANGED <<served, phase, metrics_state>>

\* create_task: SELECT ... WHERE id = cur.lastrowid, close, return dict(row)
CreateSelect(r) ==
    /\ r.pc = "select"
    /\ r.method = "POST"
    /\ \/ Raise(r, "open")
       \/ /\ Set(r, RowResult(r, CreatedRow(r), 201))
          /\ UNCHANGED faults
    /\ UNCHANGED <<served, phase, store, metrics_state>>

\* mark_done: connect(), then the UPDATE (a write: it takes the write lock).
MarkUpdate(r) ==
    /\ r.pc = "call"
    /\ Handler(r) = "/tasks/{task_id}/done"
    /\ \/ Raise(r, "none") /\ UNCHANGED store
       \/ Raise(r, "open") /\ UNCHANGED store
       \/ /\ ~wlock
          /\ Set(r, [r EXCEPT !.pc = "commit", !.con = "open",
                        !.txn = [op |-> "update", id |-> r.task_id, title |-> ""],
                        !.rowcount = RowCount(r.task_id)])
          /\ wlock' = TRUE
          /\ UNCHANGED <<tasks, seq, faults>>
    /\ UNCHANGED <<served, phase, metrics_state>>

\* mark_done: con.commit(), then the rowcount test: close and HTTPException(404).
MarkCommit(r) ==
    /\ r.pc = "commit"
    /\ r.txn.op = "update"
    /\ \/ Raise(r, "open") /\ UNCHANGED store
       \/ /\ tasks' = ApplyUpdate(tasks, r.txn.id)
          /\ wlock' = FALSE
          /\ IF NoRowMatched(r)
             THEN Set(r, [r EXCEPT !.pc = AfterHandler, !.txn = NoTxn,
                             !.committed = TRUE, !.con = "closed", !.status = 404,
                             !.body = [kind |-> "detail", detail |-> "Task not found"]])
             ELSE Set(r, [r EXCEPT !.pc = "select", !.txn = NoTxn,
                             !.committed = TRUE])
          /\ UNCHANGED <<seq, faults>>
    /\ UNCHANGED <<served, phase, metrics_state>>

\* mark_done: SELECT ... WHERE id = task_id, close, return dict(row)
MarkSelect(r) ==
    /\ r.pc = "select"
    /\ r.method = "PATCH"
    /\ \/ Raise(r, "open")
       \/ /\ Set(r, RowResult(r, FetchOne(r.task_id), 200))
          /\ UNCHANGED faults
    /\ UNCHANGED <<served, phase, store, metrics_state>>

\* metrics: generate_latest()
Metrics(r) ==
    /\ r.pc = "call"
    /\ Handler(r) = "/metrics"
    /\ Set(r, [r EXCEPT !.pc = AfterHandler, !.status = 200,
                              !.body = [kind |-> "metrics", count |-> REQ_COUNT,
                                        lat |-> REQ_LAT]])
    /\ UNCHANGED <<served, phase, store, faults, metrics_state>>

\* The connection object of a handler that raised is released by the
\* interpreter at some later time: its open transaction is rolled back and
\* its lock dropped.
Reclaim(r) ==
    /\ r.con = "open"
    /\ finished' = (finished (-) SetToBag({r}))
                     (+) SetToBag({[r EXCEPT !.con = "closed", !.txn = NoTxn]})
    /\ wlock' = IF r.txn.op # "none" THEN FALSE ELSE wlock
    /\ UNCHANGED <<served, phase, tasks, seq, active, faults, metrics_state>>

\* An exception has left the handler and reached call_next's caller.
Raised(r) == r.exc # ""

\* str(response.status_code) on both paths.
ResponseStatusLabel(r) == ToString(r.status)

\* The status label: "500" in the except branch, str(response.status_code) else.
StatusLabel(r) == IF Raised(r) THEN "500" ELSE ToString(r.status)

\* observability_mw, after call_next: count, observe, log, then return or raise.
ObservabilityMw(r) ==
    /\ r.pc = "ret"
    /\ REQ_COUNT' = REQ_COUNT (+)
                      SetToBag({<<r.method, r.path, StatusLabel(r)>>})
    /\ REQ_LAT' = REQ_LAT (+) SetToBag({<<r.method, r.path>>})
    /\ log' = log (+) SetToBag({[event |-> "request", method |-> r.method,
                                  path |-> r.path, status |-> StatusLabel(r)]})
    /\ Set(r, [r EXCEPT !.pc = "done", !.reraised = Raised(r),
                        !.status = IF Raised(r) THEN 500 ELSE @])
    /\ UNCHANGED <<served, phase, store, faults>>

----------------------------------------------------------------------------
\* The properties.

All == Active \cup Finished

RECURSIVE SumCopies(_, _)
SumCopies(S, B) ==
    IF S = {} THEN 0
    ELSE LET x == CHOOSE y \in S : TRUE
         IN CopiesIn(x, B) + SumCopies(S \ {x}, B)

\* How many requests of bag B satisfy P.
Count(B, P(_)) == SumCopies({ x \in BagToSet(B) : P(x) }, B)

\* In this step a handler took a step for some request, which goes on as rec
\* (the middleware's recording takes a request out of active instead).
HandlerStep(rec) == CopiesIn(rec, active') > CopiesIn(rec, active)

After == BagToSet(active')

IsHealth(r) == r.method = "GET" /\ r.path = "/health"
IsList(r) == r.method = "GET" /\ r.path = "/tasks"
IsCreate(r) == r.method = "POST" /\ r.path = "/tasks"
IsMarkDone(r) == r.method = "PATCH"

\* The request reached a handler: the served object has a route for it.
Routed(r) == Handler(r) # "none"

\* The handler has returned or raised.
Answered(r) == r.pc \in {"ret", "done"}

HealthBody == [kind |-> "health", status |-> "ok", db |-> "ok"]
TaskNotFound == [kind |-> "detail", detail |-> "Task not found"]

TitleInBounds(p) == p.has /\ Len(p.title) >= 1 /\ Len(p.title) <= 200

StoredIds == { t.id : t \in tasks }

\* C1: GET /health sent to the application object app.main exports is answered
\* 200 with status "ok" and db "ok" (no store statement has failed).
C1_ExportedHealthOk ==
    (served = ExportedApp /\ faults = 0) =>
        \A r \in Finished :
            IsHealth(r) => r.status = 200 /\ r.body = HealthBody

\* C2: a POST /tasks with a title of 1..200 characters that create_task
\* handles without a store failure is answered 201 with the submitted title,
\* done = 0 and an id no stored task had when the row was inserted.
C2_CreateReturnsFreshPendingTask ==
    [][ \A rec \in After :
          ( /\ HandlerStep(rec)
            /\ IsCreate(rec) /\ Routed(rec) /\ TitleInBounds(rec.payload)
            /\ rec.exc = "" )
          => /\ (rec.pc = "commit" => rec.lastrowid \notin StoredIds)
             /\ (Answered(rec) =>
                   /\ rec.status = 201
                   /\ rec.body.kind = "task"
                   /\ rec.body.task.title = rec.payload.title
                   /\ rec.body.task.done = 0
                   /\ rec.body.task.id = rec.lastrowid) ]_vars

CommittedCreate(r) == IsCreate(r) /\ r.committed

\* C3: a GET /tasks that list_tasks handles without a store failure is
\* answered 200 with exactly the tasks of the creates committed so far, each
\* once, in strictly descending order of id.
C3_ListReturnsAllCreated ==
    [][ \A rec \in After :
          ( HandlerStep(rec) /\ IsList(rec) /\ Routed(rec) /\ rec.exc = "" )
          => /\ rec.status = 200
             /\ rec.body.kind = "list"
             /\ LET rows == rec.body.rows
                    created == { c.lastrowid : c \in { x \in All : CommittedCreate(x) } }
                IN /\ Len(rows) = Count(active, CommittedCreate)
                                    + Count(finished, CommittedCreate)
                   /\ { rows[i].id : i \in 1..Len(rows) } = created
                   /\ \A i \in 1..Len(rows) : \A j \in 1..Len(rows) :
                        i < j => rows[i].id > rows[j].id ]_vars

C3_Witness ==
    \E r \in Finished :
        /\ IsList(r) /\ r.status = 200 /\ r.body.kind = "list"
        /\ Len(r.body.rows) >= 2

\* C4: a PATCH /tasks/{id}/done that mark_done handles without a store
\* failure, for an id no stored task has, is answered 404 with the body
\* {"detail": "Task not found"}.
C4_MarkDoneUnknownId404 ==
    \A r \in All :
        ( /\ IsMarkDone(r) /\ Routed(r) /\ Answered(r)
          /\ r.exc # "OperationalError"
          /\ r.task_id \notin StoredIds )
        => /\ r.exc = ""
           /\ r.status = 404
           /\ r.body = TaskNotFound

C4_Witness ==
    /\ tasks # {}
    /\ \E r \in Finished :
         IsMarkDone(r) /\ r.status = 404 /\ r.body = TaskNotFound

\* C5: once a stored task has done = 1, it is stored with done = 1 in every
\* later state.
C5_DoneNeverReverts ==
    [][ \A t \in tasks :
          t.done = 1 =>
            /\ \E u \in tasks' : u.id = t.id
            /\ \A u \in tasks' : u.id = t.id => u.done = 1 ]_vars

C5_Witness ==
    /\ \E t \in tasks : t.done = 1
    /\ Count(finished, LAMBDA r : IsMarkDone(r) /\ r.status = 200) >= 1
    /\ \E r \in Finished :
         /\ IsList(r) /\ r.body.kind = "list"
         /\ \E i \in 1..Len(r.body.rows) : r.body.rows[i].done = 1

AlreadyDone(i) == \E t \in tasks : t.id = i /\ t.done = 1

\* C6: every step of a PATCH /tasks/{id}/done on a task that already has
\* done = 1 leaves the store as it is, and the request is answered 200 with
\* that task, done = 1.
C6_MarkDoneIdempotent ==
    [][ \A rec \in After :
          ( /\ HandlerStep(rec)
            /\ IsMarkDone(rec) /\ Routed(rec) /\ rec.exc # "OperationalError"
            /\ AlreadyDone(rec.task_id) )
          => /\ tasks' = tasks
             /\ rec.exc = ""
             /\ (Answered(rec) =>
                   /\ rec.status = 200
                   /\ rec.body.kind = "task"
                   /\ rec.body.task.id = rec.task_id
                   /\ rec.body.task.done = 1) ]_vars

C6_Witness ==
    Count(finished, LAMBDA r : /\ IsMarkDone(r) /\ r.status = 200
                               /\ r.body.kind = "task" /\ r.body.task.done = 1) >= 2

Created(r) == IsCreate(r) /\ Answered(r) /\ r.status = 201 /\ r.body.kind = "task"

\* C7: the creates answered 201, concurrent ones included, each carry an id
\* of their own and the title they submitted, and no two stored tasks share
\* an id.
C7_ConcurrentCreatesDistinctIds ==
    /\ \A a \in All : \A b \in All :
         (Created(a) /\ Created(b) /\ a.body.task.id = b.body.task.id)
         => a = b /\ CopiesIn(a, active) + CopiesIn(a, finished) = 1
    /\ \A a \in All : Created(a) => a.body.task.title = a.payload.title
    /\ \A t \in tasks : \A u \in tasks : t.id = u.id => t = u

C7_Witness ==
    \E a \in Active : \E b \in Active :
        /\ a # b
        /\ Created(a) /\ Created(b)
        /\ a.pc = "ret" /\ b.pc = "ret"

\* C8: a POST /tasks whose title is missing, empty or longer than 200
\* characters is answered 422 without touching the store; every stored task
\* was inserted by a create with a title of 1..200 characters.
C8_InvalidTitleRejected ==
    /\ \A r \in All :
         (IsCreate(r) /\ Routed(r) /\ Answered(r) /\ ~TitleInBounds(r.payload))
         => /\ r.status = 422
            /\ r.con = "none"
            /\ r.lastrowid = 0
            /\ ~r.committed
    /\ \A t \in tasks :
         /\ Len(t.title) >= 1
         /\ \E r \in All :
              /\ IsCreate(r) /\ TitleInBounds(r.payload) /\ r.committed
              /\ r.lastrowid = t.id /\ r.payload.title = t.title

C8_Witness ==
    /\ \E r \in Finished : IsCreate(r) /\ r.status = 422 /\ ~r.payload.has
    /\ \E r \in Finished : IsCreate(r) /\ r.status = 422 /\ r.payload.has
                           /\ Len(r.payload.title) = 0
    /\ \E r \in Finished : IsCreate(r) /\ r.status = 422 /\ r.payload.has
                           /\ Len(r.payload.title) > 200

\* The labels the middleware is to record a finished request under.
CountLabel(r) == <<r.method, r.path, IF r.exc # "" THEN "500" ELSE ToString(r.status)>>
LatLabel(r) == <<r.method, r.path>>

Through == IF served = FirstApp THEN finished ELSE EmptyBag

\* C9: the counter holds, under each label, one increment for each request
\* that went through the middleware with that label (the response's status,
\* "500" when the handler chain raised), the histogram one observation for
\* each, and a raised exception is raised again.
C9_MiddlewareCountsOnce ==
    /\ \A r \in BagToSet(Through) :
         /\ CopiesIn(CountLabel(r), REQ_COUNT)
              = Count(Through, LAMBDA x : CountLabel(x) = CountLabel(r))
         /\ CopiesIn(LatLabel(r), REQ_LAT)
              = Count(Through, LAMBDA x : LatLabel(x) = LatLabel(r))
         /\ r.exc # "" => r.reraised /\ r.status = 500
         /\ r.exc = "" => ~r.reraised
    /\ BagCardinality(REQ_COUNT) = BagCardinality(Through)
    /\ BagCardinality(REQ_LAT) = BagCardinality(Through)
    /\ BagCardinality(log) = BagCardinality(Through)

C9_Witness ==
    /\ CopiesIn(<<"GET", "/health", "200">>, REQ_COUNT) >= 2
    /\ \E r \in Finished : r.exc # "" /\ r.reraised
    /\ BagCardinality(REQ_COUNT) >= 3

\* C10: no request ends with its store connection still open.
C10_ConnectionClosedAtEnd ==
    \A r \in Finished : r.con # "open"

----------------------------------------------------------------------------
Next ==
    \/ Startup
    \/ Accepting /\ \E r \in Arrivals : Unrouted(r)
    \/ Accepting /\ \E r \in Arrivals : Health(r)
    \/ Accepting /\ \E r \in Arrivals : ListTasks(r)
    \/ Accepting /\ \E r \in Arrivals : CreateInvalid(r)
    \/ Accepting /\ \E r \in Arrivals : CreateInsert(r)
    \/ \E r \in Active : CreateCommit(r)
    \/ \E r \in Active : CreateSelect(r)
    \/ Accepting /\ \E r \in Arrivals : MarkUpdate(r)
    \/ \E r \in Active : MarkCommit(r)
    \/ \E r \in Active : MarkSelect(r)
    \/ Accepting /\ \E r \in Arrivals : Metrics(r)
    \/ \E r \in Finished : Reclaim(r)
    \/ \E r \in Active : ObservabilityMw(r)

Spec == Init /\ [][Next]_vars
====
